---- MODULE Spec2Model ----
(***************************************************************************)
(* The two single-page chat UIs of the repository as one state machine.    *)
(*                                                                         *)
(*   query UI    Marketing Assistance Agent/agent-frontend/src/App.js      *)
(*               state  query, chatHistory; localStorage key "chatHistory" *)
(*   company UI  src/unnamed/part_000                                      *)
(*               state  company, chat, loading, followUp                   *)
(*                                                                         *)
(* A browser page shows one of the two (ui).  React is modelled by what it *)
(* does to these components: a state setter called from a handler or from  *)
(* a promise continuation takes effect with the render that follows, and   *)
(* an effect whose dependency changed runs after that render, as a step    *)
(* of its own (effectPending).  A page reload discards the in-memory       *)
(* state and every suspended continuation and keeps localStorage.          *)
(*                                                                         *)
(* A string is a sequence of tokens; the token " " is white space.         *)
(***************************************************************************)
EXTENDS Integers, Sequences, FiniteSets, TLC

\* ------------------------------------------------------------------ bounds
\* Requests one page session of the query UI may send.
MaxPosts == 2
\* Longest transcript of the query UI (a submit needs room for its two messages).
MaxTranscript == 4
\* Requests one page session of the company UI may send.
MaxCompanyPosts == 3

\* ----------------------------------------------------------------- strings
WhiteSpace == {" "}

EmptyString == <<>>

\* What the user can type into an input field.
Inputs == {<<>>, <<" ">>, <<"a">>, <<" ", "b">>}

RECURSIVE TrimStart(_)
TrimStart(s) ==
  IF s # <<>> /\ Head(s) \in WhiteSpace THEN TrimStart(Tail(s)) ELSE s

RECURSIVE TrimEnd(_)
TrimEnd(s) ==
  IF s # <<>> /\ s[Len(s)] \in WhiteSpace
    THEN TrimEnd(SubSeq(s, 1, Len(s) - 1))
    ELSE s

\* No trimming at all.
Trim_Nothing(s) == s

\* String.prototype.trim
Trim(s) == TrimEnd(TrimStart(s))

\* !s.trim() : the empty string is the only falsy string
IsBlank(s) == Trim(s) = EmptyString

IsPrefix(s, t) == Len(s) <= Len(t) /\ SubSeq(t, 1, Len(s)) = s

\* -------------------------------------------------------------------- JSON
\* localStorage.getItem of a key that is not stored
Null == [present |-> FALSE, items |-> <<>>]

\* JSON.stringify of a transcript: the text of a JSON array with one object
\* per message, each with the two members "sender" and "text".
JSONstringify(history) ==
  [present |-> TRUE,
   items   |-> [i \in 1..Len(history) |->
                  [member1 |-> <<"sender", history[i].sender>>,
                   member2 |-> <<"text">> \o history[i].text]]]

\* JSON.parse of such a text
JSONparse(stored) ==
  [i \in 1..Len(stored.items) |->
     [sender |-> stored.items[i].member1[2],
      text   |-> Tail(stored.items[i].member2)]]

\* if (stored): null is falsy; the text of a JSON array is never the empty
\* string (it holds at least the two brackets), so every stored value is truthy.
Truthy(stored) == stored.present

\* -------------------------------------------------------- backend responses
FallbackText == <<"Something went wrong.">>

\* res.data of the query endpoint: null, or an object that may hold reply
\* and insight (a missing member reads as undefined, which is falsy like "").
QueryResponses ==
  { [isNull |-> FALSE, hasReply |-> TRUE, reply |-> <<"r">>,
     hasInsight |-> FALSE, insight |-> <<>>],
    [isNull |-> FALSE, hasReply |-> TRUE, reply |-> <<>>,
     hasInsight |-> TRUE, insight |-> <<"i">>],
    [isNull |-> FALSE, hasReply |-> FALSE, reply |-> <<>>,
     hasInsight |-> FALSE, insight |-> <<>>],
    [isNull |-> TRUE, hasReply |-> FALSE, reply |-> <<>>,
     hasInsight |-> FALSE, insight |-> <<>>] }

\* JSON.stringify(res.data, null, 2), reached only when reply and insight
\* are both falsy
StringifyData(data) ==
  <<"{">>
  \o (IF data.hasReply THEN <<"\"reply\": \"\"">> ELSE <<>>)
  \o (IF data.hasInsight THEN <<"\"insight\": \"\"">> ELSE <<>>)
  \o <<"}">>

\* res.data.reply || res.data.insight || JSON.stringify(res.data, null, 2)
RawReply(data) ==
  IF data.hasReply /\ data.reply # EmptyString THEN data.reply
  ELSE IF data.hasInsight /\ data.insight # EmptyString THEN data.insight
  ELSE StringifyData(data)

\* data.insight of start_chat, data.reply of follow_up
Insights == {<<"i1">>, <<"i2">>}
Replies == {<<"r1">>}

VARIABLES
  ui,             \* which of the two pages the browser shows
  query,          \* query UI: the input field
  chatHistory,    \* query UI: the transcript
  storage,        \* localStorage["chatHistory"] (Null when the key is absent)
  mounted,        \* query UI: the mount effects have run
  effectPending,  \* query UI: chatHistory changed and its save effect has not run yet
  inflight,       \* query UI: axios.post calls not settled yet
  company,        \* company UI: the company input field
  followUp,       \* company UI: the follow-up input field
  chat,           \* company UI: the transcript
  loading,        \* company UI: the loading flag
  pending,        \* company UI: the suspended handlers, each with the text it closed over
  lastOp,         \* history: the event that ran last (effects do not count)
  posts,          \* history: requests sent in this page session
  sent,           \* history: company UI requests of this page session, in order
  chatReq,        \* history: for each message of chat, the request it belongs to
  preReload,      \* history: the transcript in memory right before the last reload
  quiescentAtReload  \* history: no render or effect was due at the last reload

vars == <<ui, query, chatHistory, storage, mounted, effectPending, inflight,
          company, followUp, chat, loading, pending,
          lastOp, posts, sent, chatReq,
          preReload, quiescentAtReload>>

queryVars == <<query, chatHistory, storage, mounted, effectPending, inflight>>
companyVars == <<company, followUp, chat, loading, pending, sent, chatReq>>
reloadVars == <<preReload, quiescentAtReload>>

\* An event after a reload ends what the history keeps of that reload.
ForgetReload == preReload' = <<>> /\ quiescentAtReload' = FALSE

Transcript == IF ui = "query" THEN chatHistory ELSE chat

\* Nothing is left to render and no effect is due.
Quiescent == IF ui = "query" THEN mounted /\ ~effectPending ELSE TRUE

Init ==
  /\ ui \in {"query", "company"}
  /\ query = EmptyString
  /\ chatHistory = <<>>
  /\ storage = Null
  /\ mounted = FALSE
  /\ effectPending = FALSE
  /\ inflight = 0
  /\ company = EmptyString
  /\ followUp = EmptyString
  /\ chat = <<>>
  /\ loading = FALSE
  /\ pending = {}
  /\ lastOp = "load"
  /\ posts = 0
  /\ sent = <<>>
  /\ chatReq = <<>>
  /\ preReload = <<>>
  /\ quiescentAtReload = FALSE

\* ================================================================ query UI
\* The two mount effects in the opposite order: the save effect writes the
\* initial empty transcript before the load effect reads the key.
MountEffects_SaveFirst ==
  /\ ui = "query"
  /\ ~mounted
  /\ storage' = JSONstringify(chatHistory)
  /\ chatHistory' = JSONparse(storage')
  /\ effectPending' = TRUE
  /\ mounted' = TRUE
  /\ UNCHANGED <<ui, query, inflight, lastOp, posts>>
  /\ UNCHANGED companyVars
  /\ UNCHANGED reloadVars

\* The two effects of the first render, in source order: the load effect
\* reads the key and, when it holds something, sets the transcript; the
\* save effect of that same render still sees the initial empty transcript
\* and writes it.  A loaded transcript is rendered next, so its save effect
\* is due.
MountEffects ==
  /\ ui = "query"
  /\ ~mounted
  /\ LET stored == storage IN
       /\ chatHistory' = IF Truthy(stored) THEN JSONparse(stored) ELSE chatHistory
       /\ effectPending' = Truthy(stored)
  /\ storage' = JSONstringify(chatHistory)
  /\ mounted' = TRUE
  /\ UNCHANGED <<ui, query, inflight, lastOp, posts>>
  /\ UNCHANGED companyVars
  /\ UNCHANGED reloadVars

\* useEffect(..., [chatHistory]) after a render in which chatHistory changed
SaveEffect ==
  /\ ui = "query"
  /\ mounted
  /\ effectPending
  /\ storage' = JSONstringify(chatHistory)
  /\ effectPending' = FALSE
  /\ UNCHANGED <<ui, query, chatHistory, mounted, inflight, lastOp, posts>>
  /\ UNCHANGED companyVars
  /\ UNCHANGED reloadVars

\* onChange of the query input
SetQuery(v) ==
  /\ ui = "query"
  /\ mounted
  /\ query' = v
  /\ lastOp' = "setQuery"
  /\ UNCHANGED <<ui, chatHistory, storage, mounted, effectPending, inflight, posts>>
  /\ UNCHANGED companyVars
  /\ ForgetReload

\* handleSubmit up to its await
HandleSubmit ==
  /\ ui = "query"
  /\ mounted
  /\ lastOp' = "handleSubmit"
  /\ IF IsBlank(query)
       THEN UNCHANGED <<query, chatHistory, effectPending, inflight, posts>>
       ELSE /\ posts < MaxPosts
            /\ Len(chatHistory) + inflight + 2 <= MaxTranscript
            /\ chatHistory' = Append(chatHistory, [sender |-> "user", text |-> query])
            /\ query' = EmptyString
            /\ effectPending' = TRUE
            /\ inflight' = inflight + 1
            /\ posts' = posts + 1
  /\ UNCHANGED <<ui, storage, mounted>>
  /\ UNCHANGED companyVars
  /\ ForgetReload

\* The try block after the await: the request resolved with res.data = data.
\* Reading a member of null throws, and the catch block appends the fallback.
AxiosResolved(data) ==
  /\ ui = "query"
  /\ mounted
  /\ inflight > 0
  /\ inflight' = inflight - 1
  /\ chatHistory' =
       Append(chatHistory,
              [sender |-> "bot",
               text   |-> IF data.isNull THEN FallbackText ELSE RawReply(data)])
  /\ effectPending' = TRUE
  /\ lastOp' = IF data.isNull THEN "submitFailed" ELSE "submitResolved"
  /\ UNCHANGED <<ui, query, storage, mounted, posts>>
  /\ UNCHANGED companyVars
  /\ ForgetReload

\* A catch block that swallows the error.
AxiosRejected_Swallowed ==
  /\ ui = "query"
  /\ mounted
  /\ inflight > 0
  /\ inflight' = inflight - 1
  /\ lastOp' = "submitFailed"
  /\ UNCHANGED <<ui, query, chatHistory, effectPending, storage, mounted, posts>>
  /\ UNCHANGED companyVars
  /\ ForgetReload

\* The catch block: the request was rejected.
AxiosRejected ==
  /\ ui = "query"
  /\ mounted
  /\ inflight > 0
  /\ inflight' = inflight - 1
  /\ chatHistory' = Append(chatHistory, [sender |-> "bot", text |-> FallbackText])
  /\ effectPending' = TRUE
  /\ lastOp' = "submitFailed"
  /\ UNCHANGED <<ui, query, storage, mounted, posts>>
  /\ UNCHANGED companyVars
  /\ ForgetReload

\* handleClear that only removes the key and sets no state.
HandleClear_RemoveOnly ==
  /\ ui = "query"
  /\ mounted
  /\ storage' = Null
  /\ lastOp' = "handleClear"
  /\ UNCHANGED <<ui, query, chatHistory, effectPending, mounted, inflight, posts>>
  /\ UNCHANGED companyVars
  /\ ForgetReload

\* handleClear: the new empty array is a new state value, so a render and
\* the save effect follow even when the transcript was empty already.
HandleClear ==
  /\ ui = "query"
  /\ mounted
  /\ chatHistory' = <<>>
  /\ storage' = Null
  /\ effectPending' = TRUE
  /\ lastOp' = "handleClear"
  /\ UNCHANGED <<ui, query, mounted, inflight, posts>>
  /\ UNCHANGED companyVars
  /\ ForgetReload

\* ============================================================== company UI
\* onChange of the company input
SetCompany(v) ==
  /\ ui = "company"
  /\ company' = v
  /\ lastOp' = "setCompany"
  /\ UNCHANGED <<ui, followUp, chat, loading, pending, sent, chatReq, posts>>
  /\ UNCHANGED queryVars
  /\ ForgetReload

\* onChange of the follow-up input, which is rendered only under a
\* non-empty transcript
SetFollowUp(v) ==
  /\ ui = "company"
  /\ Len(chat) > 0
  /\ followUp' = v
  /\ lastOp' = "setFollowUp"
  /\ UNCHANGED <<ui, company, chat, loading, pending, sent, chatReq, posts>>
  /\ UNCHANGED queryVars
  /\ ForgetReload

\* handleStartChat up to its first await; the button is disabled while loading
HandleStartChat ==
  /\ ui = "company"
  /\ ~loading
  /\ lastOp' = "handleStartChat"
  /\ IF IsBlank(company)
       THEN UNCHANGED <<loading, pending, sent, posts>>
       ELSE /\ posts < MaxCompanyPosts
            /\ loading' = TRUE
            /\ sent' = Append(sent, [endpoint |-> "start_chat", body |-> company])
            /\ pending' = pending \cup {[endpoint |-> "start_chat", text |-> company,
                                         req |-> Len(sent) + 1]}
            /\ posts' = posts + 1
  /\ UNCHANGED <<ui, company, followUp, chat, chatReq>>
  /\ UNCHANGED queryVars
  /\ ForgetReload

\* handleStartChat after both awaits: fetch and response.json() resolved
StartChatResolved(p, insight) ==
  /\ ui = "company"
  /\ p \in pending
  /\ p.endpoint = "start_chat"
  /\ chat' = <<[role |-> "bot", text |-> insight]>>
  /\ chatReq' = <<p.req>>
  /\ loading' = FALSE
  /\ pending' = pending \ {p}
  /\ lastOp' = "startChatResolved"
  /\ UNCHANGED <<ui, company, followUp, sent, posts>>
  /\ UNCHANGED queryVars
  /\ ForgetReload

\* fetch or response.json() rejected inside handleStartChat: nothing catches
\* it, the rest of the handler never runs
StartChatFailed(p) ==
  /\ ui = "company"
  /\ p \in pending
  /\ p.endpoint = "start_chat"
  /\ pending' = pending \ {p}
  /\ lastOp' = "startChatFailed"
  /\ UNCHANGED <<ui, company, followUp, chat, loading, sent, chatReq, posts>>
  /\ UNCHANGED queryVars
  /\ ForgetReload

\* The follow-up button not disabled while loading.
HandleFollowUp_NotDisabled ==
  /\ ui = "company"
  /\ Len(chat) > 0
  /\ lastOp' = "handleFollowUp"
  /\ IF IsBlank(followUp)
       THEN UNCHANGED <<loading, pending, sent, posts>>
       ELSE /\ posts < MaxCompanyPosts
            /\ loading' = TRUE
            /\ sent' = Append(sent, [endpoint |-> "follow_up", body |-> followUp])
            /\ pending' = pending \cup {[endpoint |-> "follow_up", text |-> followUp,
                                         req |-> Len(sent) + 1]}
            /\ posts' = posts + 1
  /\ UNCHANGED <<ui, company, followUp, chat, chatReq>>
  /\ UNCHANGED queryVars
  /\ ForgetReload

\* handleFollowUp up to its first await; the button exists only under a
\* non-empty transcript and is disabled while loading
HandleFollowUp ==
  /\ ui = "company"
  /\ Len(chat) > 0
  /\ ~loading
  /\ lastOp' = "handleFollowUp"
  /\ IF IsBlank(followUp)
       THEN UNCHANGED <<loading, pending, sent, posts>>
       ELSE /\ posts < MaxCompanyPosts
            /\ loading' = TRUE
            /\ sent' = Append(sent, [endpoint |-> "follow_up", body |-> followUp])
            /\ pending' = pending \cup {[endpoint |-> "follow_up", text |-> followUp,
                                         req |-> Len(sent) + 1]}
            /\ posts' = posts + 1
  /\ UNCHANGED <<ui, company, followUp, chat, chatReq>>
  /\ UNCHANGED queryVars
  /\ ForgetReload

\* The two messages appended in the opposite order.
FollowUpResolved_ReplyFirst(p, reply) ==
  /\ ui = "company"
  /\ p \in pending
  /\ p.endpoint = "follow_up"
  /\ chat' = chat \o <<[role |-> "bot", text |-> reply],
                       [role |-> "user", text |-> p.text]>>
  /\ chatReq' = chatReq \o <<p.req, p.req>>
  /\ followUp' = EmptyString
  /\ loading' = FALSE
  /\ pending' = pending \ {p}
  /\ lastOp' = "followUpResolved"
  /\ UNCHANGED <<ui, company, sent, posts>>
  /\ UNCHANGED queryVars
  /\ ForgetReload

\* setChat([...]) without the previous transcript.
FollowUpResolved_Overwrite(p, reply) ==
  /\ ui = "company"
  /\ p \in pending
  /\ p.endpoint = "follow_up"
  /\ chat' = <<[role |-> "user", text |-> p.text], [role |-> "bot", text |-> reply]>>
  /\ chatReq' = <<p.req, p.req>>
  /\ followUp' = EmptyString
  /\ loading' = FALSE
  /\ pending' = pending \ {p}
  /\ lastOp' = "followUpResolved"
  /\ UNCHANGED <<ui, company, sent, posts>>
  /\ UNCHANGED queryVars
  /\ ForgetReload

\* handleFollowUp after both awaits; the followUp it appends is the value
\* the handler closed over when it was called (p.text)
FollowUpResolved(p, reply) ==
  /\ ui = "company"
  /\ p \in pending
  /\ p.endpoint = "follow_up"
  /\ chat' = chat \o <<[role |-> "user", text |-> p.text],
                       [role |-> "bot", text |-> reply]>>
  /\ chatReq' = chatReq \o <<p.req, p.req>>
  /\ followUp' = EmptyString
  /\ loading' = FALSE
  /\ pending' = pending \ {p}
  /\ lastOp' = "followUpResolved"
  /\ UNCHANGED <<ui, company, sent, posts>>
  /\ UNCHANGED queryVars
  /\ ForgetReload

\* fetch or response.json() rejected inside handleFollowUp
FollowUpFailed(p) ==
  /\ ui = "company"
  /\ p \in pending
  /\ p.endpoint = "follow_up"
  /\ pending' = pending \ {p}
  /\ lastOp' = "followUpFailed"
  /\ UNCHANGED <<ui, company, followUp, chat, loading, sent, chatReq, posts>>
  /\ UNCHANGED queryVars
  /\ ForgetReload

\* ================================================================== reload
\* The page is reloaded: every useState starts from its initial value again,
\* suspended handlers are gone, localStorage stays.
Reload ==
  /\ preReload' = Transcript
  /\ quiescentAtReload' = Quiescent
  /\ lastOp' = "reload"
  /\ query' = EmptyString
  /\ chatHistory' = <<>>
  /\ mounted' = FALSE
  /\ effectPending' = FALSE
  /\ inflight' = 0
  /\ company' = EmptyString
  /\ followUp' = EmptyString
  /\ chat' = <<>>
  /\ loading' = FALSE
  /\ pending' = {}
  /\ posts' = 0
  /\ sent' = <<>>
  /\ chatReq' = <<>>
  /\ UNCHANGED <<ui, storage>>

Next ==
  \/ MountEffects
  \/ SaveEffect
  \/ \E v \in Inputs : SetQuery(v)
  \/ HandleSubmit
  \/ \E data \in QueryResponses : AxiosResolved(data)
  \/ AxiosRejected
  \/ HandleClear
  \/ \E v \in Inputs : SetCompany(v)
  \/ \E v \in Inputs : SetFollowUp(v)
  \/ HandleStartChat
  \/ \E p \in pending, insight \in Insights : StartChatResolved(p, insight)
  \/ \E p \in pending : StartChatFailed(p)
  \/ HandleFollowUp
  \/ \E p \in pending, reply \in Replies : FollowUpResolved(p, reply)
  \/ \E p \in pending : FollowUpFailed(p)
  \/ Reload

Spec == Init /\ [][Next]_vars

\* The network call of a suspended handleSubmit settles: it either resolves
\* or is rejected.
RequestSettles ==
  \/ \E data \in QueryResponses : AxiosResolved(data)
  \/ AxiosRejected

\* Every request the browser sent is eventually answered or fails.
FairSpec == Spec /\ WF_vars(RequestSettles)

\* ================================================================== claims
\* "empty or whitespace-only", said without trim
WhitespaceOnly(s) == \A i \in 1..Len(s) : s[i] \in WhiteSpace

QueryFallback == [sender |-> "bot", text |-> FallbackText]
CompanyFallback == [role |-> "bot", text |-> FallbackText]

\* C2: once handleClear and the effects it triggers have run, the transcript
\* is empty and the key "chatHistory" is absent from storage.
C2_ClearRemovesPersistedKey ==
  (ui = "query" /\ lastOp = "handleClear" /\ Quiescent)
    => (chatHistory = <<>> /\ storage = Null)

\* C4 as stated: whenever the page was reloaded and the mount effects have
\* run to completion, the transcript equals the transcript that was in
\* memory right before the reload (in either UI, whenever the reload came).
C4_ReloadRestoresAlways ==
  (lastOp = "reload" /\ Quiescent) => Transcript = preReload

\* C4 as stated, for the query UI alone (the UI that persists its
\* transcript): a reload between a state update and the save effect that
\* follows it is included.
C4_ReloadRestoresAlwaysInQueryUI ==
  (ui = "query" /\ lastOp = "reload" /\ Quiescent) => chatHistory = preReload

\* C4 as amended: in the query UI a reload that comes when no render or
\* effect is due restores, once the mount effects and the save effect they
\* trigger have run, exactly the transcript that was in memory before the
\* reload; the company UI stores nothing, so its transcript is empty after
\* a reload.
C4_ReloadRestoresQuiescent ==
  /\ (ui = "query" /\ lastOp = "reload" /\ quiescentAtReload /\ Quiescent)
       => chatHistory = preReload
  /\ (ui = "company" /\ lastOp = "reload") => chat = <<>>

\* C4: a transcript of two or more messages came back after a quiescent reload.
C4_Witness ==
  /\ ui = "query"
  /\ lastOp = "reload"
  /\ quiescentAtReload
  /\ Quiescent
  /\ Len(preReload) >= 2

\* C5: in every quiescent state of the query UI the value stored under
\* "chatHistory" is the serialization of the transcript in memory.
C5_StorageMirrorsTranscript ==
  (ui = "query" /\ Quiescent) => storage = JSONstringify(chatHistory)

\* C5: the effects have run after a failed request was answered with the fallback.
C5_Witness ==
  /\ ui = "query"
  /\ Quiescent
  /\ lastOp = "submitFailed"
  /\ Len(chatHistory) >= 2
  /\ storage = JSONstringify(chatHistory)

\* The transitions C1 lists: every event but the clear (and the reload).
NonClearEvents ==
  {"handleSubmit", "submitResolved", "submitFailed",
   "handleStartChat", "startChatResolved", "startChatFailed",
   "handleFollowUp", "followUpResolved", "followUpFailed"}

\* C1 as stated: over every transition other than a clear (submit, response
\* arrival, request failure, start-chat, follow-up) the transcript before is
\* a prefix of the transcript after.
C1_AppendOnlyEveryTransition ==
  [][lastOp' \in NonClearEvents => IsPrefix(Transcript, Transcript')]_vars

\* C1 as amended: the same for every listed transition except the arrival
\* of a start_chat response, which replaces the transcript of the company
\* UI by the one bot message that carries the insight.
C1_AppendOnlyButStartChat ==
  [][/\ (lastOp' \in NonClearEvents \ {"startChatResolved"})
          => IsPrefix(Transcript, Transcript')
     /\ (lastOp' = "startChatResolved")
          => chat' \in {<<[role |-> "bot", text |-> i]>> : i \in Insights}]_vars

\* C1: a follow-up response has been appended to a transcript of three messages.
C1_Witness ==
  /\ ui = "company"
  /\ lastOp = "followUpResolved"
  /\ Len(chat) >= 5

\* C3: every failed request, in handleSubmit, handleStartChat and
\* handleFollowUp alike, appends exactly the one bot message
\* "Something went wrong." to the transcript.
C3_FailureAppendsOneFallback ==
  [][/\ (AxiosRejected \/ \E d \in QueryResponses : d.isNull /\ AxiosResolved(d))
          => chatHistory' = Append(chatHistory, QueryFallback)
     /\ (\E p \in pending : StartChatFailed(p) \/ FollowUpFailed(p))
          => chat' = Append(chat, CompanyFallback)]_vars

\* Network calls not settled yet.
Outstanding == IF ui = "query" THEN inflight ELSE Cardinality(pending)

\* C6 as stated: in either UI at most one network call is outstanding at
\* any time, and no clear runs while a handler is suspended.
C6_AtMostOneOutstandingCall ==
  /\ [](Outstanding <= 1)
  /\ [][HandleClear => inflight = 0]_vars

\* C6 as amended: in the company UI at most one network call is outstanding
\* at any time, and loading is true while it is.
C6_CompanyAtMostOneOutstanding ==
  ui = "company" => (Cardinality(pending) <= 1 /\ (pending # {} => loading))

\* C6: one follow-up or start_chat call is outstanding under a non-empty transcript.
C6_Witness ==
  /\ ui = "company"
  /\ Cardinality(pending) = 1
  /\ Len(chat) > 0
  /\ loading

\* C7: in the query UI every submit of non-blank text sends one POST and
\* appends one user message with the submitted text; every request that
\* settles appends one bot message; nothing else is appended; and every
\* request sent is eventually settled (unless the page is reloaded first).
C7_OneRequestOneResponse ==
  /\ [][/\ (HandleSubmit /\ ~WhitespaceOnly(query))
             => /\ posts' = posts + 1
                /\ inflight' = inflight + 1
                /\ chatHistory' = Append(chatHistory, [sender |-> "user", text |-> query])
        /\ (ui = "query" /\ lastOp' # "reload" /\ inflight' # inflight /\ posts' = posts)
             => /\ inflight' = inflight - 1
                /\ Len(chatHistory') = Len(chatHistory) + 1
                /\ IsPrefix(chatHistory, chatHistory')
                /\ chatHistory'[Len(chatHistory')].sender = "bot"
        /\ (ui = "query" /\ mounted /\ lastOp' \notin {"reload", "handleClear"}
              /\ chatHistory' # chatHistory)
             => \/ posts' = posts + 1 /\ inflight' = inflight + 1
                \/ posts' = posts /\ inflight' = inflight - 1]_vars
  /\ \A n \in 1..MaxPosts :
       (ui = "query" /\ posts >= n) ~> (posts < n \/ posts - inflight >= n)

\* C7: two submits were in flight together and both have been answered.
C7_Witness ==
  /\ ui = "query"
  /\ posts = 2
  /\ inflight = 0
  /\ Len(chatHistory) = 4
  /\ chatHistory[1].sender = "user"
  /\ chatHistory[2].sender = "user"

\* C8: in the company UI, once the request of a handler has completed (no
\* handler is suspended any more), loading is false again.
C8_LoadingReturnsToFalse ==
  (ui = "company" /\ pending = {}) => ~loading

\* C9: in the company UI a follow_up request is sent only when the
\* transcript holds a stored start_chat response, and every user message of
\* the transcript is immediately followed by the bot reply to the request
\* that carried that same question.
C9_FollowUpAfterStartChat ==
  /\ [](ui = "company" =>
          \A i \in 1..Len(chat) :
            chat[i].role = "user" =>
              /\ i < Len(chat)
              /\ chat[i + 1].role = "bot"
              /\ chatReq[i + 1] = chatReq[i]
              /\ sent[chatReq[i]] = [endpoint |-> "follow_up", body |-> chat[i].text])
  /\ [][(ui = "company" /\ Len(sent') = Len(sent) + 1
           /\ sent'[Len(sent')].endpoint = "follow_up")
          => /\ Len(chat) > 0
             /\ chat[1].role = "bot"
             /\ sent[chatReq[1]].endpoint = "start_chat"]_vars

\* C9: a second follow-up is outstanding after a first one was answered.
C9_Witness ==
  /\ ui = "company"
  /\ Len(chat) >= 3
  /\ chat[2].role = "user"
  /\ \E p \in pending : p.endpoint = "follow_up"

\* C10: a handler called on empty or whitespace-only input sends nothing
\* and leaves the transcript, the input fields, the loading flag and the
\* persisted key as they were.
C10_BlankSubmitChangesNothing ==
  [][(\/ HandleSubmit /\ WhitespaceOnly(query)
      \/ HandleStartChat /\ WhitespaceOnly(company)
      \/ HandleFollowUp /\ WhitespaceOnly(followUp))
       => UNCHANGED <<query, chatHistory, storage, inflight, company, followUp,
                      chat, loading, pending, posts, sent>>]_vars

\* C10: handleSubmit ran on a whitespace-only query after an earlier real submit.
C10_Witness ==
  /\ ui = "query"
  /\ lastOp = "handleSubmit"
  /\ query = <<" ">>
  /\ posts = 1

====
